---------------------------- MODULE Spec2Model ----------------------------
(***************************************************************************)
(* Form-field synthesis and parsing of ludic.catalog.forms together with   *)
(* the contact store of examples/click_to_edit.py.                         *)
(*                                                                         *)
(* A Python value is a record [t, v]: its type name and its text.  A dict  *)
(* is a function from its keys; an optional object is a sequence of        *)
(* length zero (None) or one.                                              *)
(***************************************************************************)
EXTENDS Integers, Sequences, FiniteSets, TLC

\* spec      the schema class, with the FieldMeta objects it annotates
\* attrs     the value set handed to create_fields, as the call left it
\* contacts  the contact store of click_to_edit
\* op, args  the last call and its arguments
\* ret       what the last call returned
\* raised    what the last call raised
VARIABLES spec, attrs, contacts, op, args, ret, raised

vars == <<spec, attrs, contacts, op, args, ret, raised>>

(***************************************************************************)
(* Bounds of the model.                                                    *)
(***************************************************************************)
\* number of fields a schema declares
MaxFields == 2

(***************************************************************************)
(* Python values.                                                          *)
(***************************************************************************)
Str(s) == [t |-> "str", v |-> s]

PyInt(s) == [t |-> "int", v |-> s]

PyBool(b) == [t |-> "bool", v |-> IF b THEN "True" ELSE "False"]

PyNone == [t |-> "NoneType", v |-> "None"]

\* bool(x): the empty string, 0, False and None are falsy
Truthy(x) ==
    CASE x.t = "str" -> x.v # ""
      [] x.t = "int" -> x.v # "0"
      [] x.t = "bool" -> x.v = "True"
      [] OTHER -> FALSE

\* str(x): the text of x, typed str
PyStr(x) == Str(x.v)

NoExc == [exc |-> "none", msg |-> ""]

Exc(e, m) == [exc |-> e, msg |-> m]

EmptyDict == <<>>

DictSet(d, k, x) == [key \in DOMAIN d \cup {k} |-> IF key = k THEN x ELSE d[key]]

\* d.get(k, default)
DictGet(d, k, default) == IF k \in DOMAIN d THEN d[k] ELSE default

\* f(**a, **b) with disjoint keyword sets
Kwargs(a, b) == [key \in DOMAIN a \cup DOMAIN b |-> IF key \in DOMAIN a THEN a[key] ELSE b[key]]

Restrict(d, keys) == [key \in DOMAIN d \cap keys |-> d[key]]

\* Component(*children, **attrs)
Component(cls, children, kwargs) == [cls |-> cls, children |-> children, attrs |-> kwargs]

\* an html element: tag(*children, **attrs)
Node(tag, children, kwargs) == [tag |-> tag, children |-> children, attrs |-> kwargs]

\* the None a function returns where an element was expected
NoneElement == [cls |-> "NoneType", children |-> <<>>, attrs |-> EmptyDict]

(***************************************************************************)
(* FieldMeta (forms.py 27-76).                                             *)
(***************************************************************************)
NoParser == "None"

\* FieldMeta(): the dataclass defaults
Kinds == {"input", "checkbox", "textarea"}

DefaultMeta ==
    [label |-> Str("auto"), kind |-> "input", type |-> "text",
     attrs |-> <<>>, parser |-> NoParser]

\* the extra attributes a schema gives a field (none clashes with a keyword
\* format passes itself)
ExtraAttrs == [placeholder |-> Str("...")]

\* the FieldMeta objects the schemas of the model are built from
FieldMetas ==
    { DefaultMeta,
      [DefaultMeta EXCEPT !.label = Str("Email"), !.type = "email",
                          !.attrs = <<ExtraAttrs>>, !.parser = "parse_email"],
      [DefaultMeta EXCEPT !.label = PyNone, !.kind = "checkbox"],
      [DefaultMeta EXCEPT !.kind = "checkbox", !.parser = "parse_email"],
      [DefaultMeta EXCEPT !.label = Str("Notes"), !.kind = "textarea"],
      [DefaultMeta EXCEPT !.kind = "select"] }

\* .utils.attr_to_camel on the field names of the model
attr_to_camel(name) ==
    CASE name = "id" -> "Id"
      [] name = "first_name" -> "First Name"
      [] name = "last_name" -> "Last Name"
      [] name = "email" -> "Email"
      [] OTHER -> name

InputField(kwargs) == Component("InputField", <<>>, kwargs)

TextAreaField(kwargs) == Component("TextAreaField", <<>>, kwargs)

\* a format that writes into self.attrs itself instead of a copy
FormatAttrsAliased(self) ==
    IF self.attrs = <<>>
    THEN [dict |-> EmptyDict, aliased |-> FALSE]
    ELSE [dict |-> self.attrs[1], aliased |-> TRUE]

\* the dict format writes name and label into: {} or a copy of self.attrs
FormatAttrs(self) ==
    IF self.attrs = <<>>
    THEN [dict |-> EmptyDict, aliased |-> FALSE]
    ELSE [dict |-> self.attrs[1], aliased |-> FALSE]

\* the label entry of format: `if self.label` / `elif self.label == "auto"`
FormatLabel(self, key, d) ==
    IF Truthy(self.label)
    THEN DictSet(d, "label", self.label)
    ELSE IF self.label = Str("auto")
         THEN DictSet(d, "label", Str(attr_to_camel(key)))
         ELSE d

\* the match on self.kind; no case matches an unrecognized kind and the
\* method falls off its end
FormatMatch(self, value, d) ==
    CASE self.kind = "input" ->
           InputField(Kwargs([value |-> value, type |-> Str(self.type)], d))
      [] self.kind = "checkbox" ->
           InputField(Kwargs([checked |-> value, type |-> Str("checkbox")], d))
      [] self.kind = "textarea" ->
           TextAreaField(Kwargs([value |-> value], d))
      [] OTHER -> NoneElement

\* FieldMeta.format: what it returns, what it raises and self afterwards
format(self, key, value) ==
    LET local == FormatAttrs(self)
        named == DictSet(local.dict, "name", Str(key))
        labelled == FormatLabel(self, key, named)
    IN  [ret |-> FormatMatch(self, value, labelled),
         raised |-> NoExc,
         self |-> IF local.aliased
                  THEN [self EXCEPT !.attrs = <<labelled>>]
                  ELSE self]

(***************************************************************************)
(* Parsers.                                                                *)
(***************************************************************************)
\* len(s.split("@")) on the raw strings of the model
SplitAtLen(s) == IF s = "a@b" THEN 2 ELSE 1

\* the parser of the FieldMeta docstring
parse_email(email) ==
    IF email.t # "str"
    THEN [ret |-> PyNone, raised |-> Exc("AttributeError", "split")]
    ELSE IF SplitAtLen(email.v) # 2
         THEN [ret |-> PyNone, raised |-> Exc("ValidationError", "Invalid email")]
         ELSE [ret |-> email, raised |-> NoExc]

\* a checkbox parser that tests the truth of the raw value
CheckboxParserTruthy(value) == [ret |-> PyBool(Truthy(value)), raised |-> NoExc]

\* lambda value: True if value == "on" else False
CheckboxParser(value) == [ret |-> PyBool(value = Str("on")), raised |-> NoExc]

DEFAULT_FIELD_PARSERS == [checkbox |-> "checkbox"]

\* calling a callable by its name
Apply(f, value) ==
    CASE f = "checkbox" -> CheckboxParser(value)
      [] f = "parse_email" -> parse_email(value)
      [] f = "str" -> [ret |-> PyStr(value), raised |-> NoExc]

\* a default that ignores the kind
DefaultParserCheckboxForAll(self) == "checkbox"

\* DEFAULT_FIELD_PARSERS.get(self.kind, str)
DefaultParser(self) == DictGet(DEFAULT_FIELD_PARSERS, self.kind, "str")

\* a parse that catches the failure of the custom parser
parseSwallow(self, value) ==
    IF self.parser # NoParser
    THEN LET r == Apply(self.parser, value)
         IN  IF r.raised = NoExc THEN r ELSE [ret |-> value, raised |-> NoExc]
    ELSE Apply(DefaultParser(self), value)

\* FieldMeta.parse
parse(self, value) ==
    IF self.parser # NoParser
    THEN Apply(self.parser, value)
    ELSE Apply(DefaultParser(self), value)

\* FieldMeta.__call__
call(self, value) == parse(self, value)

(***************************************************************************)
(* InputField.render and TextAreaField.render (forms.py 110-141).          *)
(***************************************************************************)
\* the attribute names of the html input and textarea elements
InputAttrsKeys == {"name", "id", "value", "type", "checked", "placeholder"}

TextAreaAttrsKeys == {"name", "id", "placeholder"}

\* Component.attrs_for(element): the attributes the element declares
attrs_for(self, keys) == Restrict(self.attrs, keys)

\* FormField.create_label
create_label(text, for_) ==
    IF Truthy(for_)
    THEN Node("label", <<text>>, [for_ |-> for_])
    ELSE Node("label", <<text>>, EmptyDict)

\* the attributes of the inner element: attrs_for, then id = name
RenderAttrs(self, keys) ==
    LET a == attrs_for(self, keys)
    IN  IF "name" \in DOMAIN self.attrs
        THEN DictSet(a, "id", self.attrs["name"])
        ELSE a

\* the optional label element of a field
RenderLabel(self, a) ==
    LET text == DictGet(self.attrs, "label", PyNone)
    IN  IF Truthy(text)
        THEN <<create_label(text, DictGet(a, "id", Str("")))>>
        ELSE <<>>

RenderDiv(self, elements) ==
    Node("div", elements,
         [class_ |-> DictGet(self.attrs, "class_div", Str("form-group"))])

InputFieldRender(self) ==
    LET a == RenderAttrs(self, InputAttrsKeys)
    IN  [ret |-> RenderDiv(self, RenderLabel(self, a) \o <<Node("input", <<>>, a)>>),
         raised |-> NoExc]

\* self.children[0] of a field built without children raises IndexError
TextAreaFieldRender(self) ==
    LET a == RenderAttrs(self, TextAreaAttrsKeys)
    IN  IF Len(self.children) = 0
        THEN [ret |-> NoneElement,
              raised |-> Exc("IndexError", "tuple index out of range")]
        ELSE [ret |-> RenderDiv(self, RenderLabel(self, a)
                                 \o <<Node("textarea", <<self.children[1]>>, a)>>),
              raised |-> NoExc]

\* element.render(), dispatched on the element's class
render(self) ==
    CASE self.cls = "InputField" -> InputFieldRender(self)
      [] self.cls = "TextAreaField" -> TextAreaFieldRender(self)

(***************************************************************************)
(* create_fields (forms.py 152-185).                                       *)
(***************************************************************************)
\* a schema is the sequence of its declarations [name, meta], meta optional
HasMeta(decl) == decl.meta # <<>>

\* get_annotations_metadata_of_type(annotations, FieldMeta): the fields that
\* carry a FieldMeta, in declaration order
get_annotations_metadata_of_type(schema) == SelectSeq(schema, HasMeta)

\* a loop body that puts the new field first
CreateFieldsStepPrepend(acc, item, values) ==
    LET value == DictGet(values, item.name, PyNone)
    IN  IF Truthy(value)
        THEN LET r == format(item.meta[1], item.name, value)
             IN  [fields |-> <<r.ret>> \o acc.fields,
                  metadata_list |-> Append(acc.metadata_list,
                                           [name |-> item.name, meta |-> <<r.self>>])]
        ELSE [acc EXCEPT !.metadata_list = Append(@, item)]

\* one iteration of the loop: `if value := attrs.get(name)`, format, append
CreateFieldsStep(acc, item, values) ==
    LET value == DictGet(values, item.name, PyNone)
    IN  IF Truthy(value)
        THEN LET r == format(item.meta[1], item.name, value)
             IN  [fields |-> Append(acc.fields, r.ret),
                  metadata_list |-> Append(acc.metadata_list,
                                           [name |-> item.name, meta |-> <<r.self>>])]
        ELSE [acc EXCEPT !.metadata_list = Append(@, item)]

RECURSIVE CreateFieldsLoop(_, _, _, _)
\* the for loop over metadata_list.items(), from item i on
CreateFieldsLoop(acc, metadata_list, i, values) ==
    IF i > Len(metadata_list)
    THEN acc
    ELSE CreateFieldsLoop(CreateFieldsStep(acc, metadata_list[i], values),
                          metadata_list, i + 1, values)

\* the schema with its FieldMeta objects as the loop left them
SchemaAfter(schema, metadata_list) ==
    [i \in 1..Len(schema) |->
        IF HasMeta(schema[i])
        THEN metadata_list[Cardinality({j \in 1..i : HasMeta(schema[j])})]
        ELSE schema[i]]

\* create_fields(attrs, spec): the tuple returned, and the schema afterwards
create_fields(values, schema) ==
    LET metadata_list == get_annotations_metadata_of_type(schema)
        done == CreateFieldsLoop([fields |-> <<>>, metadata_list |-> <<>>],
                                 metadata_list, 1, values)
    IN  [ret |-> done.fields,
         raised |-> NoExc,
         spec |-> SchemaAfter(schema, done.metadata_list)]

(***************************************************************************)
(* The contact store (click_to_edit.py 16-66).                             *)
(***************************************************************************)
ContactAttrs ==
    << [name |-> "id", meta |-> <<>>],
       [name |-> "first_name",
        meta |-> <<[DefaultMeta EXCEPT !.label = Str("First Name")]>>],
       [name |-> "last_name",
        meta |-> <<[DefaultMeta EXCEPT !.label = Str("Last Name")]>>],
       [name |-> "email",
        meta |-> <<[DefaultMeta EXCEPT !.label = Str("Email"), !.type = "email"]>>] >>

InitialContacts ==
    "1" :> [id |-> Str("1"), first_name |-> Str("John"),
            last_name |-> Str("Doe"), email |-> Str("qN6Z8@example.com")]

\* the fields put assigns, in the order of its statements
PutFields == <<"first_name", "last_name", "email">>

RECURSIVE PutAssign(_, _, _)
\* contact[f] = str(data[f]) for the fields from i on; data[f] raises
\* KeyError on a missing key and the earlier assignments stay
PutAssign(contact, data, i) ==
    IF i > Len(PutFields)
    THEN [contact |-> contact, raised |-> NoExc]
    ELSE IF PutFields[i] \notin DOMAIN data
         THEN [contact |-> contact, raised |-> Exc("KeyError", PutFields[i])]
         ELSE PutAssign(DictSet(contact, PutFields[i], PyStr(data[PutFields[i]])),
                        data, i + 1)

\* Contact.put(id, data): the store afterwards, the endpoint returned
ContactPut(store, id, data) ==
    IF id \notin DOMAIN store
    THEN [contacts |-> store, ret |-> NoneElement,
          raised |-> Exc("NotFoundError", "Contact not found")]
    ELSE LET r == PutAssign(store[id], data, 1)
         IN  [contacts |-> [store EXCEPT ![id] = r.contact],
              ret |-> IF r.raised = NoExc
                      THEN Component("Contact", <<>>, r.contact)
                      ELSE NoneElement,
              raised |-> r.raised]

\* Contact.get(id) and ContactForm.get(id)
ContactGet(store, cls, id) ==
    IF id \notin DOMAIN store
    THEN [ret |-> NoneElement, raised |-> Exc("NotFoundError", "Contact not found")]
    ELSE [ret |-> Component(cls, <<>>, store[id]), raised |-> NoExc]

(***************************************************************************)
(* Inputs.                                                                 *)
(***************************************************************************)
\* the declared field names, in declaration order
FieldNames == <<"id", "first_name", "last_name", "email">>

SchemaNames == {FieldNames[i] : i \in 1..MaxFields}

\* the schemas: every field without metadata or with one of FieldMetas
Schemas ==
    { s \in [1..MaxFields -> [name : SchemaNames,
                              meta : {<<>>} \cup {<<m>> : m \in FieldMetas}]] :
        \A i \in 1..MaxFields : s[i].name = FieldNames[i] }

\* current values of a value set
Values == {Str(""), Str("John"), PyInt("0")}

ValueSets == UNION {[D -> Values] : D \in SUBSET SchemaNames}

\* raw submitted values
Raws == {Str(""), Str("on"), Str("On"), Str("a@b"), PyInt("5")}

Ids == {"1", "2"}

FormValues == {Str("Jane"), Str("")}

\* submissions: any subset of the contact fields
FormDatas == UNION {[D -> FormValues] : D \in SUBSET {"first_name", "last_name", "email"}}

(***************************************************************************)
(* The state machine of the forms module.                                  *)
(***************************************************************************)
Init ==
    /\ spec \in Schemas
    /\ attrs = EmptyDict
    /\ contacts = InitialContacts
    /\ op = "init"
    /\ args = <<>>
    /\ ret = NoneElement
    /\ raised = NoExc

CreateFields ==
    \E values \in ValueSets :
        LET r == create_fields(values, spec)
        IN  /\ op' = "create_fields"
            /\ args' = [attrs |-> values, spec |-> spec]
            /\ attrs' = values
            /\ spec' = r.spec
            /\ ret' = r.ret
            /\ raised' = r.raised
            /\ UNCHANGED contacts

Format ==
    \E i \in 1..Len(spec), key \in SchemaNames, value \in Values :
        /\ HasMeta(spec[i])
        /\ LET r == format(spec[i].meta[1], key, value)
           IN  /\ op' = "format"
               /\ args' = [self |-> spec[i].meta[1], key |-> key, value |-> value,
                           spec |-> spec]
               /\ spec' = [spec EXCEPT ![i].meta = <<r.self>>]
               /\ ret' = r.ret
               /\ raised' = r.raised
        /\ attrs' = EmptyDict
        /\ UNCHANGED contacts

Render ==
    /\ op = "format"
    /\ ret.cls \in {"InputField", "TextAreaField"}
    /\ LET r == render(ret)
       IN  /\ op' = "render"
           /\ args' = [self |-> ret, meta |-> args.self, value |-> args.value]
           /\ ret' = r.ret
           /\ raised' = r.raised
    /\ attrs' = EmptyDict
    /\ UNCHANGED <<spec, contacts>>

Parse ==
    \E i \in 1..Len(spec), raw \in Raws :
        /\ HasMeta(spec[i])
        /\ LET r == parse(spec[i].meta[1], raw)
           IN  /\ op' = "parse"
               /\ args' = [self |-> spec[i].meta[1], value |-> raw]
               /\ ret' = r.ret
               /\ raised' = r.raised
        /\ attrs' = EmptyDict
        /\ UNCHANGED <<spec, contacts>>

Call ==
    \E i \in 1..Len(spec), raw \in Raws :
        /\ HasMeta(spec[i])
        /\ LET r == call(spec[i].meta[1], raw)
           IN  /\ op' = "call"
               /\ args' = [self |-> spec[i].meta[1], value |-> raw]
               /\ ret' = r.ret
               /\ raised' = r.raised
        /\ attrs' = EmptyDict
        /\ UNCHANGED <<spec, contacts>>

Next == CreateFields \/ Format \/ Render \/ Parse \/ Call

Spec == Init /\ [][Next]_vars

(***************************************************************************)
(* The state machine of the click-to-edit endpoints.                       *)
(***************************************************************************)
InitContacts ==
    /\ spec = ContactAttrs
    /\ attrs = EmptyDict
    /\ contacts = InitialContacts
    /\ op = "init"
    /\ args = <<>>
    /\ ret = NoneElement
    /\ raised = NoExc

Put ==
    \E id \in Ids, data \in FormDatas :
        LET r == ContactPut(contacts, id, data)
        IN  /\ op' = "put"
            /\ args' = [id |-> id, data |-> data, before |-> contacts]
            /\ contacts' = r.contacts
            /\ ret' = r.ret
            /\ raised' = r.raised
            /\ UNCHANGED <<spec, attrs>>

Get ==
    \E id \in Ids, cls \in {"Contact", "ContactForm"} :
        LET r == ContactGet(contacts, cls, id)
        IN  /\ op' = "get"
            /\ args' = [id |-> id, cls |-> cls]
            /\ ret' = r.ret
            /\ raised' = r.raised
            /\ UNCHANGED <<spec, attrs, contacts>>

NextContacts == Put \/ Get

SpecContacts == InitContacts /\ [][NextContacts]_vars

(***************************************************************************)
(* Properties.                                                             *)
(***************************************************************************)
\* the FieldMeta a schema attaches to a field
MetaOf(schema, name) ==
    (CHOOSE i \in 1..Len(schema) : schema[i].name = name).meta[1]

\* the fields of the last create_fields call that carry a FieldMeta and
\* have a truthy value in the value set, in declaration order
Qualifying ==
    LET Shown(decl) == /\ HasMeta(decl)
                       /\ decl.name \in DOMAIN args.attrs
                       /\ Truthy(args.attrs[decl.name])
    IN  SelectSeq(args.spec, Shown)

\* C1: a put on a stored contact completes for every subset of the three
\* fields submitted, stores the parsed value of each submitted field and
\* keeps the previous value of each field not submitted.
PutIsPartialUpdate ==
    (op = "put" /\ args.id \in DOMAIN args.before) =>
        /\ raised = NoExc
        /\ \A i \in 1..Len(PutFields) :
              LET f == PutFields[i]
              IN  contacts[args.id][f] =
                     IF f \in DOMAIN args.data
                     THEN parse(MetaOf(spec, f), args.data[f]).ret
                     ELSE args.before[args.id][f]

\* C2: create_fields returns one entry for exactly the fields that carry a
\* FieldMeta and have a truthy value in the value set, in declaration order:
\* entry i is what format built for the i-th such field, an element named
\* after it when its kind is one of the three kinds.
CreateFieldsSelectsInOrder ==
    op = "create_fields" =>
        /\ raised = NoExc
        /\ Len(ret) = Len(Qualifying)
        /\ \A i \in 1..Len(Qualifying) :
              LET decl == Qualifying[i]
                  meta == decl.meta[1]
              IN  /\ ret[i] = format(meta, decl.name, args.attrs[decl.name]).ret
                  /\ meta.kind \in Kinds =>
                        /\ ret[i].cls \in {"InputField", "TextAreaField"}
                        /\ ret[i].attrs["name"] = Str(decl.name)

\* both declared fields are shown, in declaration order
CreateFieldsTwoShown ==
    /\ op = "create_fields"
    /\ Len(ret) = 2
    /\ ret[1].cls = "InputField" /\ ret[1].attrs["name"] = Str("id")
    /\ ret[2].cls = "TextAreaField" /\ ret[2].attrs["name"] = Str("first_name")

\* C3: format gives the element of a FieldMeta with label "auto" the label
\* attr_to_camel(name), uses any other label string verbatim and gives no
\* label when the label is None.
LabelIsResolved ==
    (op = "format" /\ ret.cls # "NoneType") =>
        /\ args.self.label = Str("auto") =>
              /\ "label" \in DOMAIN ret.attrs
              /\ ret.attrs["label"] = Str(attr_to_camel(args.key))
        /\ (args.self.label.t = "str" /\ args.self.label # Str("auto")) =>
              /\ "label" \in DOMAIN ret.attrs
              /\ ret.attrs["label"] = args.self.label
        /\ args.self.label = PyNone => "label" \notin DOMAIN ret.attrs

\* C4: format on a FieldMeta of an unrecognized kind raises, and so does
\* create_fields when such a field has a truthy value; no None entry is
\* ever returned.
UnrecognizedKindRaises ==
    /\ (op = "format" /\ args.self.kind \notin Kinds) => raised # NoExc
    /\ op = "create_fields" =>
          /\ (\E i \in 1..Len(Qualifying) : Qualifying[i].meta[1].kind \notin Kinds)
                => raised # NoExc
          /\ raised = NoExc => \A i \in 1..Len(ret) : ret[i] # NoneElement

\* C5: the element format builds for a textarea field and a non-empty value
\* renders to a textarea node whose child is the value and which has no
\* value attribute; an input field renders to an input node whose value
\* attribute is the value.
TextareaValueIsChild ==
    (op = "render" /\ Truthy(args.value)) =>
        /\ args.meta.kind = "textarea" =>
              /\ raised = NoExc
              /\ \E i \in 1..Len(ret.children) :
                    /\ ret.children[i].tag = "textarea"
                    /\ ret.children[i].children = <<args.value>>
                    /\ "value" \notin DOMAIN ret.children[i].attrs
        /\ args.meta.kind = "input" =>
              /\ raised = NoExc
              /\ \E i \in 1..Len(ret.children) :
                    /\ ret.children[i].tag = "input"
                    /\ ret.children[i].children = <<>>
                    /\ ret.children[i].attrs["value"] = args.value

\* C6: parse and __call__ of a FieldMeta with a custom parser have exactly
\* the outcome of the parser on the raw value: its return value or the
\* failure it raised.
CustomParserPropagates ==
    (op \in {"parse", "call"} /\ args.self.parser # NoParser) =>
        [ret |-> ret, raised |-> raised] = Apply(args.self.parser, args.value)

\* the custom parser of a checkbox field rejects a raw value
CustomParserRejects ==
    /\ op = "call"
    /\ args.self.kind = "checkbox"
    /\ args.self.parser = "parse_email"
    /\ args.value = Str("on")
    /\ raised = Exc("ValidationError", "Invalid email")

\* C7 as stated: without a custom parser, parse of an input or textarea
\* field returns the raw value itself, whatever its type.
DefaultParseIsIdentity ==
    (op = "parse" /\ args.self.parser = NoParser
                  /\ args.self.kind \in {"input", "textarea"}) =>
        /\ raised = NoExc
        /\ ret = args.value

\* C7: without a custom parser, parse of an input or textarea field returns
\* str(raw): a raw string unchanged, any other raw value as its text.
DefaultParseIsStr ==
    (op = "parse" /\ args.self.parser = NoParser
                  /\ args.self.kind \in {"input", "textarea"}) =>
        /\ raised = NoExc
        /\ ret = PyStr(args.value)
        /\ args.value.t = "str" => ret = args.value

\* a textarea field parses the integer 5 to the string "5"
DefaultParseOfInt ==
    /\ op = "parse"
    /\ args.self.parser = NoParser
    /\ args.self.kind = "textarea"
    /\ args.value = PyInt("5")
    /\ ret = Str("5")

\* C8: without a custom parser, parse of a checkbox field returns True for
\* the raw string "on" and False for every other raw string.
CheckboxDefaultParse ==
    (op \in {"parse", "call"} /\ args.self.parser = NoParser
                              /\ args.self.kind = "checkbox"
                              /\ args.value.t = "str") =>
        /\ raised = NoExc
        /\ ret = PyBool(args.value.v = "on")

\* a checkbox field parses "On" to False
CheckboxParsesOtherString ==
    /\ op = "parse"
    /\ args.self.parser = NoParser
    /\ args.self.kind = "checkbox"
    /\ args.value = Str("On")
    /\ ret = PyBool(FALSE)

\* C9: create_fields and format leave the schema's FieldMeta objects and
\* the value set as they were, and create_fields run again on what it left
\* returns the same tuple.
SynthesisHasNoSideEffects ==
    /\ op = "format" => spec = args.spec
    /\ op = "create_fields" =>
          /\ spec = args.spec
          /\ attrs = args.attrs
          /\ create_fields(attrs, spec).ret = ret

\* a field whose FieldMeta has extra attributes was formatted by create_fields
ExtraAttrsWereFormatted ==
    /\ op = "create_fields"
    /\ Len(ret) = 2
    /\ \E i \in 1..Len(spec) :
          /\ HasMeta(spec[i])
          /\ spec[i].meta[1].attrs = <<ExtraAttrs>>
          /\ \E j \in 1..Len(ret) :
                /\ ret[j].attrs["name"] = Str(spec[i].name)
                /\ "placeholder" \in DOMAIN ret[j].attrs

\* C10: a put that raises leaves every contact as it was, and no put
\* changes a contact's id or the set of contacts.
FailingPutIsAtomic ==
    op = "put" =>
        /\ raised # NoExc => contacts = args.before
        /\ DOMAIN contacts = DOMAIN args.before
        /\ \A id \in DOMAIN contacts : contacts[id]["id"] = args.before[id]["id"]

=============================================================================
